---- MODULE Spec2Model ----
(***************************************************************************)
(* A model of the ELYSIUM auction bot (src/PYTHON): the BiddingSystem      *)
(* (bidding.py: point snapshot, lock map, two-phase bid confirmation and   *)
(* the timed item), the AuctioneeringSystem (auctioneering.py: sessions,   *)
(* attendance rosters, the run over all items) and the gateway handler     *)
(* that routes a bid message (main.py on_message).                         *)
(*                                                                         *)
(* The bot runs on one asyncio event loop.  Code between two awaits is one *)
(* atomic action; every await that other coroutines can overtake is a      *)
(* boundary between two actions.  Wall-clock time is the variable now, in  *)
(* seconds, advanced by Tick in steps of Quantum; a sleeper or timer runs  *)
(* at the first instant at or after its deadline, in any order with the    *)
(* other work that is ready at that instant.                               *)
(***************************************************************************)
EXTENDS Integers, Sequences, FiniteSets, TLC

(***************************************************************************)
(* Bounds of the model.                                                    *)
(***************************************************************************)
MaxBid == 3            \* largest amount a bidder types
MaxPoints == 3         \* largest point total the ledger reports
MaxTasks == 2          \* process_bid coroutines in flight at once
Quantum == 10          \* seconds per Tick
MaxPrompts == 3        \* confirmation prompts posted in one run
MaxStarts == 2         \* !startauctionnow commands in one run of the model
MaxQuantity == 2       \* largest quantity of a sheet row

(***************************************************************************)
(* Program constants.                                                      *)
(***************************************************************************)
CONFIRM_TIMEOUT == 10
RATE_LIMIT == 3
MAX_EXTENSIONS == 15
PREVIEW_TIME == 30
EXTENSION_WINDOW == 60      \* "time_left < 60" and "end_time += 60"
GOING_ONCE_LEFT == 60
GOING_TWICE_LEFT == 30
FINAL_CALL_LEFT == 10
NEXT_AUCTION_GAP == 40      \* two sleeps of 20 s between queued auctions

(***************************************************************************)
(* Names.  Python's str.lower() and str.strip() on the names of the model. *)
(***************************************************************************)
Names == {"Alice", "ALICE", "alice", "Bob", "bob", "Bob ", "bob "}

Lower(s) ==
    CASE s \in {"Alice", "ALICE", "alice"} -> "alice"
      [] s \in {"Bob", "bob"} -> "bob"
      [] s \in {"Bob ", "bob "} -> "bob "
      [] OTHER -> s

Strip(s) ==
    CASE s = "Bob " -> "Bob"
      [] s = "bob " -> "bob"
      [] OTHER -> s

Max(a, b) == IF a >= b THEN a ELSE b

(***************************************************************************)
(* Python dicts as functions with a finite domain.                         *)
(***************************************************************************)
EmptyDict == [k \in {} |-> 0]
Get(d, k, default) == IF k \in DOMAIN d THEN d[k] ELSE default
Put(d, k, v) == [x \in (DOMAIN d) \cup {k} |-> IF x = k THEN v ELSE d[x]]
Pop(d, k) == [x \in (DOMAIN d) \ {k} |-> d[x]]

None == [tag |-> "None"]
NoName == ""

(***************************************************************************)
(* The people who type bids: a Discord member id and its display name.     *)
(***************************************************************************)
Users == {1, 2}
DisplayName(u) == IF u = 1 THEN "Alice" ELSE "Bob"

(***************************************************************************)
(* What a bidder types after !bid, and int(amount) with its ValueError.    *)
(***************************************************************************)
NotInt == -1000
RawAmounts == {"abc", "-1", "0"} \cup {ToString(n) : n \in 1..MaxBid}
ParseInt(raw) ==
    IF \E n \in -1..MaxBid : ToString(n) = raw
    THEN CHOOSE n \in -1..MaxBid : ToString(n) = raw
    ELSE NotInt

(***************************************************************************)
(* The ledger's answers to getBiddingPoints: a JSON object, kept in key    *)
(* order.  The sheet spells Alice's name in capitals.                      *)
(***************************************************************************)
Snapshot(a, b) == << [name |-> "ALICE", pts |-> a], [name |-> "Bob", pts |-> b] >>
SheetAnswers == {<< >>, Snapshot(MaxPoints, MaxPoints - 1)}

(***************************************************************************)
(* Items an operator can queue (BiddingSystem.add_to_queue).               *)
(***************************************************************************)
QueueItems == {[start_price |-> 0, duration |-> 1, quantity |-> 1],
               [start_price |-> 1, duration |-> 2, quantity |-> 2]}

VARIABLES
    now,               \* wall clock, seconds
    queue,             \* BiddingSystem.queue
    active_auction,    \* BiddingSystem.active_auction
    locked_points,     \* BiddingSystem.locked_points
    history,           \* BiddingSystem.history
    cached_points,     \* BiddingSystem.cached_points
    last_bid_time,     \* BiddingSystem.last_bid_time
    tasks,             \* process_bid coroutines and their pending confirmations
    timers,            \* timer_* tasks created by schedule_auction_timers
    chain,             \* the start_auction / end_auction coroutine
    prompts,           \* confirmation prompts posted so far
    active,                  \* AuctioneeringSystem.active
    sessions,                \* AuctioneeringSystem.sessions
    current_session_index,   \* AuctioneeringSystem.current_session_index
    current_item_index,      \* AuctioneeringSystem.current_item_index
    current_item,            \* AuctioneeringSystem.current_item
    session_items,           \* AuctioneeringSystem.session_items
    run_timers,              \* AuctioneeringSystem.timers: the item_* tasks
    sched,                   \* the coroutine that carries the run forward
    starts,                  \* !startauctionnow commands handled so far
    results,                 \* the results last built for submitBiddingResults
    pause                    \* BiddingSystem.paused, and when the pause began

bidVars == << now, queue, active_auction, locked_points, history, cached_points,
              last_bid_time, tasks, timers, chain, prompts >>

schedVars == << active, sessions, current_session_index, current_item_index,
               current_item, session_items, run_timers, sched, starts >>

vars == << bidVars, schedVars, results, pause >>

Slots == 1..MaxTasks
Free == [pc |-> "free"]

(***************************************************************************)
(* PointLedger: the cached snapshot and the lock map.                      *)
(***************************************************************************)
NoCache == [loaded |-> FALSE, points |-> << >>]

cache_truthy == cached_points.loaded /\ Len(cached_points.points) > 0

get_points(username) ==
    IF ~cache_truthy THEN 0
    ELSE LET pts == cached_points.points
             exact == {i \in 1..Len(pts) : pts[i].name = username}
             folded == {i \in 1..Len(pts) : Lower(pts[i].name) = Lower(username)}
             first(S) == CHOOSE i \in S : \A j \in S : i <= j
         IN  IF exact # {} THEN pts[first(exact)].pts
             ELSE IF folded # {} THEN pts[first(folded)].pts
             ELSE 0

locked_of(locked, username) == Get(locked, username, 0)

get_available_points_no_floor(username) ==
    get_points(username) - locked_of(locked_points, username)

get_available_points(username) ==
    Max(0, get_points(username) - locked_of(locked_points, username))

lock_points(locked, username, amount) ==
    Put(locked, username, locked_of(locked, username) + amount)

unlock_points(locked, username, amount) ==
    LET new_amount == Max(0, locked_of(locked, username) - amount)
    IN  IF new_amount = 0 THEN Pop(locked, username)
        ELSE Put(locked, username, new_amount)

(***************************************************************************)
(* SettlementReport: the results list both systems build for               *)
(* submitBiddingResults, from a snapshot (in key order) and the records of *)
(* the sales.                                                              *)
(***************************************************************************)
member_key_untrimmed(name) == Lower(name)

\* name.lower().strip(): the key of the dict winners.
member_key(name) == Strip(Lower(name))

\* winners.get(key, 0) once the loop over the records has run.
RECURSIVE winners_get(_, _)
winners_get(records, key) ==
    IF records = << >> THEN 0
    ELSE (IF member_key(Head(records).winner) = key THEN Head(records).amount ELSE 0)
         + winners_get(Tail(records), key)

build_results(points, records) ==
    [i \in 1..Len(points) |->
        [member |-> points[i].name,
         totalSpent |-> winners_get(records, member_key(points[i].name))]]

\* the list as built, with the snapshot and the records it was built from.
Built(points, records) ==
    [points |-> points, records |-> records, entries |-> build_results(points, records)]

(***************************************************************************)
(* The item: BiddingSystem.start_auction .. end_auction.                   *)
(***************************************************************************)
NewAuction(item) ==
    [id |-> item.id, start_price |-> item.start_price, duration |-> item.duration,
     quantity |-> item.quantity, cur_bid |-> item.start_price,
     cur_winner |-> NoName, cur_winner_id |-> 0, bids |-> << >>,
     end_time |-> 0, ext_count |-> 0, status |-> "preview",
     going_once |-> FALSE, going_twice |-> FALSE]

Idle == [pc |-> "idle", at |-> 0, item |-> None, sale |-> None]

NotPaused == [paused |-> FALSE, at |-> 0, count |-> 0]

\* start_auction called on the head of the queue; it first awaits the ledger.
StartAuction ==
    /\ chain.pc = "idle"
    /\ Len(queue) > 0
    /\ chain' = [pc |-> "loading", at |-> 0, item |-> queue[1], sale |-> None]
    /\ UNCHANGED << now, queue, active_auction, locked_points, history,
                    cached_points, last_bid_time, tasks, timers, prompts >>
    /\ UNCHANGED schedVars
    /\ UNCHANGED results
    /\ UNCHANGED pause

LoadPointsOk_releasing(answer) ==
    /\ chain.pc = "loading"
    /\ cached_points' = [loaded |-> TRUE, points |-> answer]
    /\ locked_points' = EmptyDict
    /\ active_auction' = NewAuction(chain.item)
    /\ chain' = [chain EXCEPT !.pc = "preview", !.at = now + PREVIEW_TIME]
    /\ UNCHANGED << now, queue, history, last_bid_time, tasks, timers, prompts >>
    /\ UNCHANGED schedVars
    /\ UNCHANGED results
    /\ UNCHANGED pause

\* load_points_cache answered: the snapshot replaces the cache, locks stay;
\* the thread is created, the preview posted and the 30 s preview sleep begins.
LoadPointsOk(answer) ==
    /\ chain.pc = "loading"
    /\ cached_points' = [loaded |-> TRUE, points |-> answer]
    /\ active_auction' = NewAuction(chain.item)
    /\ chain' = [chain EXCEPT !.pc = "preview", !.at = now + PREVIEW_TIME]
    /\ UNCHANGED << now, queue, locked_points, history, last_bid_time, tasks, timers, prompts >>
    /\ UNCHANGED schedVars
    /\ UNCHANGED results
    /\ UNCHANGED pause

\* the request failed or its body did not parse: start_auction returns False.
LoadPointsFail ==
    /\ chain.pc = "loading"
    /\ chain' = Idle
    /\ UNCHANGED << now, queue, active_auction, locked_points, history,
                    cached_points, last_bid_time, tasks, timers, prompts >>
    /\ UNCHANGED schedVars
    /\ UNCHANGED results
    /\ UNCHANGED pause

\* schedule_auction_timers: one task per announcement and one for the end.
schedule_auction_timers(auction, t) ==
    LET time_left == auction.end_time - t
    IN  (IF time_left > GOING_ONCE_LEFT /\ ~auction.going_once
         THEN {[kind |-> "go1", at |-> t + (time_left - GOING_ONCE_LEFT)]} ELSE {})
        \cup
        (IF time_left > GOING_TWICE_LEFT /\ ~auction.going_twice
         THEN {[kind |-> "go2", at |-> t + (time_left - GOING_TWICE_LEFT)]} ELSE {})
        \cup
        (IF time_left > FINAL_CALL_LEFT
         THEN {[kind |-> "go3", at |-> t + (time_left - FINAL_CALL_LEFT)]} ELSE {})
        \cup
        {[kind |-> "end", at |-> t + time_left]}

\* activate_auction, after the preview sleep.
ActivateAuction ==
    /\ chain.pc = "preview"
    /\ now >= chain.at
    /\ IF active_auction = None
       THEN /\ chain' = Idle
            /\ UNCHANGED << active_auction, timers >>
       ELSE LET a == [active_auction EXCEPT !.status = "active",
                                            !.end_time = now + (active_auction.duration * 60)]
            IN  /\ active_auction' = a
                /\ timers' = timers \cup schedule_auction_timers(a, now)
                /\ chain' = [chain EXCEPT !.pc = "running", !.at = 0]
    /\ UNCHANGED << now, queue, locked_points, history, cached_points,
                    last_bid_time, tasks, prompts >>
    /\ UNCHANGED schedVars
    /\ UNCHANGED results
    /\ UNCHANGED pause

auction_is_active == active_auction # None /\ active_auction.status = "active"

\* BiddingSystem.paused: False from the constructor on; no code of
\* src/PYTHON assigns it.
paused == pause.paused

TimerGoingOnce ==
    \E t \in timers :
        /\ t.kind = "go1"
        /\ now >= t.at
        /\ timers' = timers \ {t}
        /\ active_auction' = IF auction_is_active /\ ~paused
                             THEN [active_auction EXCEPT !.going_once = TRUE]
                             ELSE active_auction
        /\ UNCHANGED << now, queue, locked_points, history, cached_points,
                        last_bid_time, tasks, chain, prompts >>
        /\ UNCHANGED schedVars
        /\ UNCHANGED results
        /\ UNCHANGED pause

TimerGoingTwice ==
    \E t \in timers :
        /\ t.kind = "go2"
        /\ now >= t.at
        /\ timers' = timers \ {t}
        /\ active_auction' = IF auction_is_active /\ ~paused
                             THEN [active_auction EXCEPT !.going_twice = TRUE]
                             ELSE active_auction
        /\ UNCHANGED << now, queue, locked_points, history, cached_points,
                        last_bid_time, tasks, chain, prompts >>
        /\ UNCHANGED schedVars
        /\ UNCHANGED results
        /\ UNCHANGED pause

TimerFinalCall ==
    \E t \in timers :
        /\ t.kind = "go3"
        /\ now >= t.at
        /\ timers' = timers \ {t}
        /\ UNCHANGED << now, queue, active_auction, locked_points, history,
                        cached_points, last_bid_time, tasks, chain, prompts >>
        /\ UNCHANGED schedVars
        /\ UNCHANGED results
        /\ UNCHANGED pause

\* sorted(bids, key=amount, reverse=True): stable, largest amount first.
RECURSIVE InsertDesc(_, _)
InsertDesc(sorted, b) ==
    IF sorted = << >> THEN << b >>
    ELSE IF Head(sorted).amount >= b.amount
         THEN << Head(sorted) >> \o InsertDesc(Tail(sorted), b)
         ELSE << b >> \o sorted

RECURSIVE SortedDesc(_)
SortedDesc(bids) ==
    IF bids = << >> THEN << >>
    ELSE InsertDesc(SortedDesc(SubSeq(bids, 1, Len(bids) - 1)), bids[Len(bids)])

Take(seq, n) == SubSeq(seq, 1, IF n < Len(seq) THEN n ELSE Len(seq))

\* which result end_auction announces, settled before it awaits the post:
\* the winners listed in the SOLD embed, or none for NO BIDS.
end_auction_branch(a) ==
    IF a.quantity > 1 /\ Len(a.bids) > 0
    THEN [branch |-> "batch", winners |-> Take(SortedDesc(a.bids), a.quantity)]
    ELSE IF a.cur_winner # NoName
         THEN [branch |-> "single",
               winners |-> << [username |-> a.cur_winner, user_id |-> a.cur_winner_id,
                               amount |-> a.cur_bid] >>]
         ELSE [branch |-> "none", winners |-> << >>]

\* timer_end_auction: after its sleep it looks at the status only, then
\* end_auction marks the item ended, settles which result it announces (and
\* for a batch, the winners) and awaits the SOLD / NO BIDS post.
timer_end_auction_ends(t) == auction_is_active

TimerEndAuction ==
    \E t \in timers :
        /\ t.kind = "end"
        /\ now >= t.at
        /\ timers' = timers \ {t}
        /\ IF timer_end_auction_ends(t)
           THEN /\ active_auction' = [active_auction EXCEPT !.status = "ended"]
                /\ chain' = [chain EXCEPT !.pc = "ending",
                                          !.sale = end_auction_branch(active_auction)]
           ELSE UNCHANGED << active_auction, chain >>
        /\ UNCHANGED << now, queue, locked_points, history, cached_points,
                        last_bid_time, tasks, prompts >>
        /\ UNCHANGED schedVars
        /\ UNCHANGED results
        /\ UNCHANGED pause

\* the records end_auction appends to history once the result is posted:
\* the winners settled before the post, or the winner the item has by then.
end_auction_records(a, sale) ==
    IF sale.branch = "batch"
    THEN [i \in 1..Len(sale.winners) |->
             [item |-> a.id, winner |-> sale.winners[i].username,
              winner_id |-> sale.winners[i].user_id, amount |-> sale.winners[i].amount]]
    ELSE IF sale.branch = "single"
         THEN << [item |-> a.id, winner |-> a.cur_winner,
                  winner_id |-> a.cur_winner_id, amount |-> a.cur_bid] >>
         ELSE << >>

RemoveId(q, id) == SelectSeq(q, LAMBDA x : x.id # id)

\* end_auction after the SOLD / NO BIDS post: the history; then it awaits
\* the archiving of the thread.
EndAuctionRecord ==
    /\ chain.pc = "ending"
    /\ history' = history \o end_auction_records(active_auction, chain.sale)
    /\ chain' = [chain EXCEPT !.pc = "archiving"]
    /\ UNCHANGED << now, queue, active_auction, locked_points, cached_points,
                    last_bid_time, tasks, timers, prompts >>
    /\ UNCHANGED schedVars
    /\ UNCHANGED results
    /\ UNCHANGED pause

\* end_auction once the thread is archived: queue, active_auction; then the
\* next queued item after two 20 s sleeps, or finalize_session, which
\* builds the results and awaits the sheet.
EndAuctionRemove ==
    /\ chain.pc = "archiving"
    /\ LET q == RemoveId(queue, active_auction.id)
       IN  /\ queue' = q
           /\ active_auction' = None
           /\ chain' = IF Len(q) > 0
                       THEN [pc |-> "gap", at |-> now + NEXT_AUCTION_GAP, item |-> None,
                             sale |-> None]
                       ELSE IF Len(history) = 0
                            THEN [pc |-> "done", at |-> 0, item |-> None, sale |-> None]
                            ELSE [pc |-> "finalizing", at |-> 0, item |-> None, sale |-> None]
           /\ results' = IF Len(q) = 0 /\ Len(history) > 0
                         THEN Built(cached_points.points, history)
                         ELSE results
    /\ UNCHANGED << now, locked_points, history, cached_points, last_bid_time, tasks,
                    timers, prompts >>
    /\ UNCHANGED schedVars
    /\ UNCHANGED pause

NextAuction ==
    /\ chain.pc = "gap"
    /\ now >= chain.at
    /\ Len(queue) > 0
    /\ chain' = [pc |-> "loading", at |-> 0, item |-> queue[1], sale |-> None]
    /\ UNCHANGED << now, queue, active_auction, locked_points, history,
                    cached_points, last_bid_time, tasks, timers, prompts >>
    /\ UNCHANGED schedVars
    /\ UNCHANGED results
    /\ UNCHANGED pause

\* the payload finalize_session of the BiddingSystem posts to the sheet.
bidding_submit_payload == [action |-> "submitBiddingResults", results |-> results]

\* finalize_session: submitBiddingResults answered 200: the run state is cleared.
FinalizeSessionOk ==
    /\ chain.pc = "finalizing"
    /\ history' = << >>
    /\ locked_points' = EmptyDict
    /\ cached_points' = NoCache
    /\ chain' = [chain EXCEPT !.pc = "done"]
    /\ UNCHANGED << now, queue, active_auction, last_bid_time, tasks, timers, prompts >>
    /\ UNCHANGED schedVars
    /\ UNCHANGED results
    /\ UNCHANGED pause

FinalizeSessionFail ==
    /\ chain.pc = "finalizing"
    /\ chain' = [chain EXCEPT !.pc = "done"]
    /\ UNCHANGED << now, queue, active_auction, locked_points, history,
                    cached_points, last_bid_time, tasks, timers, prompts >>
    /\ UNCHANGED schedVars
    /\ UNCHANGED results
    /\ UNCHANGED pause

(***************************************************************************)
(* SessionScheduler: AuctioneeringSystem.  The sheet lists the items with  *)
(* the boss kill they dropped from; items of one kill form a session, and  *)
(* the members who attended the kill are its roster.                       *)
(***************************************************************************)
ITEM_WAIT == 20
ITEM_PREVIEW_TIME == 20
START_WAIT == 20
SESSION_GAP == 10

NoKey == ""

\* the "boss" cell: stripped, matched against "<name> M/D/YY H:MM", the name
\* upper-cased and the numbers zero-filled; NoKey for a cell that is skipped.
parse_boss(boss) ==
    CASE boss = "EGO 10/27/25 17:57" -> "EGO 10/27/25 17:57"
      [] boss = "ego 10/27/25 17:57 " -> "EGO 10/27/25 17:57"
      [] boss = "Viorent 10/28/25 9:05" -> "VIORENT 10/28/25 09:05"
      [] OTHER -> NoKey

boss_name_of(boss_key) ==
    CASE boss_key = "EGO 10/27/25 17:57" -> "EGO"
      [] boss_key = "VIORENT 10/28/25 09:05" -> "VIORENT"
      [] OTHER -> ""

\* answers of the sheet to getBiddingItems and to getAttendanceForBoss.
SheetItemLists ==
    { << >>,
      << [item |-> "Ring", boss |-> "EGO", quantity |-> 1, start_price |-> 1, duration |-> 1] >>,
      << [item |-> "Sword", boss |-> "ego 10/27/25 17:57 ", quantity |-> 1, start_price |-> 1, duration |-> 1],
         [item |-> "Ring", boss |-> "", quantity |-> 1, start_price |-> 1, duration |-> 1],
         [item |-> "Staff", boss |-> "Viorent 10/28/25 9:05", quantity |-> 1, start_price |-> 0, duration |-> 2],
         [item |-> "Bow", boss |-> "EGO 10/27/25 17:57", quantity |-> MaxQuantity, start_price |-> 0, duration |-> 1] >> }

AttendanceAnswers == { << >>, << "ALICE" >>, << "alice", "Bob " >> }

\* one sheet row as the entries of its session: one per unit of quantity.
expand_item(it, idx, boss_key) ==
    [q \in 1..it.quantity |->
        [item |-> it.item, start_price |-> it.start_price, duration |-> it.duration,
         quantity |-> 1,
         batch_number |-> IF it.quantity > 1 THEN q ELSE 0,
         batch_total |-> IF it.quantity > 1 THEN it.quantity ELSE 0,
         source |-> "GoogleSheet", sheet_index |-> idx - 1, boss_key |-> boss_key]]

\* the sessions built from the sheet rows from idx on, in order of first
\* appearance of their boss key (boss_groups is a dict).  loaded tells
\* whether session.attendees has been assigned an answer of the sheet.
RECURSIVE group_items(_, _, _)
group_items(sheet_items, idx, groups) ==
    IF idx > Len(sheet_items) THEN groups
    ELSE LET it == sheet_items[idx]
             key == parse_boss(it.boss)
             pos == {i \in 1..Len(groups) : groups[i].boss_key = key}
         IN  IF key = NoKey THEN group_items(sheet_items, idx + 1, groups)
             ELSE IF pos = {}
             THEN group_items(sheet_items, idx + 1,
                      Append(groups, [boss_key |-> key, boss_name |-> boss_name_of(key),
                                      items |-> expand_item(it, idx, key),
                                      attendees |-> << >>, loaded |-> FALSE]))
             ELSE LET i == CHOOSE i \in pos : TRUE
                  IN  group_items(sheet_items, idx + 1,
                          [groups EXCEPT ![i].items = @ \o expand_item(it, idx, key)])

NewCurrentItem(it, session) ==
    [item |-> it.item, start_price |-> it.start_price, duration |-> it.duration,
     quantity |-> it.quantity, source |-> it.source, cur_bid |-> it.start_price,
     cur_winner |-> NoName, cur_winner_id |-> 0, bids |-> << >>,
     end_time |-> 0, ext_count |-> 0, status |-> "active",
     going_once |-> FALSE, going_twice |-> FALSE,
     sheet_index |-> it.sheet_index, batch_number |-> it.batch_number,
     batch_total |-> it.batch_total, current_session |-> session]

Runs == 1..MaxStarts

\* the task that carries a run forward: where it waits (pc, at), the session
\* of its attendance loop (k, fresh), whether self.timers refers to it (reg).
SchedIdle == [pc |-> "idle", at |-> 0, k |-> 0, reg |-> FALSE, fresh |-> FALSE,
              sold |-> FALSE]

can_user_bid_exact(item, username) ==
    IF item = None \/ item.current_session = None THEN TRUE
    ELSE IF item.current_session.boss_key = NoKey THEN TRUE
    ELSE \E i \in 1..Len(item.current_session.attendees) :
             item.current_session.attendees[i] = username

\* can_user_bid, for the item it reads from self.current_item.
can_user_bid_on(item, username) ==
    IF item = None \/ item.current_session = None THEN TRUE
    ELSE IF item.current_session.boss_key = NoKey THEN TRUE
    ELSE \E i \in 1..Len(item.current_session.attendees) :
             Lower(item.current_session.attendees[i]) = Lower(username)

can_user_bid(username) == can_user_bid_on(current_item, username)

\* !startauctionnow by an admin while no run is active.  The handler and
\* start_auctioneering test only self.active, which stays False until the
\* rosters are loaded: a second command in that window starts a second
\* coroutine.
StartAuctioneering ==
    /\ ~active
    /\ starts < MaxStarts
    /\ sched' = [sched EXCEPT ![starts + 1] = [SchedIdle EXCEPT !.pc = "load_points"]]
    /\ starts' = starts + 1
    /\ UNCHANGED << active, sessions, current_session_index, current_item_index,
                    current_item, session_items, run_timers >>
    /\ UNCHANGED bidVars
    /\ UNCHANGED results
    /\ UNCHANGED pause

RunLoadPoints(r, answer) ==
    /\ sched[r].pc = "load_points"
    /\ cached_points' = [loaded |-> TRUE, points |-> answer]
    /\ sched' = [sched EXCEPT ![r].pc = "fetch_items"]
    /\ UNCHANGED << active, sessions, current_session_index, current_item_index,
                    current_item, session_items, run_timers, starts >>
    /\ UNCHANGED << now, queue, active_auction, locked_points, history,
                    last_bid_time, tasks, timers, chain, prompts >>
    /\ UNCHANGED results
    /\ UNCHANGED pause

RunLoadPointsFail(r) ==
    /\ sched[r].pc = "load_points"
    /\ sched' = [sched EXCEPT ![r] = SchedIdle]
    /\ UNCHANGED << active, sessions, current_session_index, current_item_index,
                    current_item, session_items, run_timers, starts >>
    /\ UNCHANGED bidVars
    /\ UNCHANGED results
    /\ UNCHANGED pause

\* self.sessions was cleared or rebuilt by run r: a session object another
\* start still holds in its attendance loop is no longer in the list.
Detached(sc, r) ==
    [x \in Runs |-> IF x # r /\ sc[x].pc = "attendance"
                    THEN [sc[x] EXCEPT !.fresh = FALSE] ELSE sc[x]]

\* getBiddingItems answered: the run state is cleared and the sessions are
\* built.  A queued manual item is a QueueItem object, not a dict: reading
\* it with .get raises, after the state was cleared.
FetchSheetItems(r, answer) ==
    /\ sched[r].pc = "fetch_items"
    /\ session_items' = << >>
    /\ IF Len(queue) > 0
       THEN /\ sessions' = << >>
            /\ sched' = Detached([sched EXCEPT ![r] = SchedIdle], r)
       ELSE LET groups == group_items(answer, 1, << >>)
            IN  /\ sessions' = groups
                /\ sched' = Detached([sched EXCEPT ![r] =
                                IF groups = << >> THEN SchedIdle
                                ELSE [SchedIdle EXCEPT !.pc = "attendance", !.k = 1,
                                                       !.fresh = TRUE]], r)
    /\ UNCHANGED << active, current_session_index, current_item_index,
                    current_item, run_timers, starts >>
    /\ UNCHANGED bidVars
    /\ UNCHANGED results
    /\ UNCHANGED pause

FetchSheetItemsFail(r) ==
    /\ sched[r].pc = "fetch_items"
    /\ sched' = [sched EXCEPT ![r] = SchedIdle]
    /\ UNCHANGED << active, sessions, current_session_index, current_item_index,
                    current_item, session_items, run_timers, starts >>
    /\ UNCHANGED bidVars
    /\ UNCHANGED results
    /\ UNCHANGED pause

\* getAttendanceForBoss answered for the session run r holds (the k-th of
\* its iteration over self.sessions); the iteration goes on over the list as
\* it is now; after its last session the run becomes active and the first
\* item follows in 20 s.
LoadAttendance(r, answer) ==
    /\ sched[r].pc = "attendance"
    /\ sessions' = IF sched[r].fresh
                   THEN [sessions EXCEPT ![sched[r].k].attendees = answer,
                                         ![sched[r].k].loaded = TRUE]
                   ELSE sessions
    /\ IF sched[r].k < Len(sessions)
       THEN /\ sched' = [sched EXCEPT ![r].k = sched[r].k + 1, ![r].fresh = TRUE]
            /\ UNCHANGED << active, current_session_index, current_item_index >>
       ELSE /\ active' = TRUE
            /\ current_session_index' = 0
            /\ current_item_index' = 0
            /\ sched' = [sched EXCEPT ![r] = [SchedIdle EXCEPT !.pc = "start_wait",
                                                              !.at = now + START_WAIT]]
    /\ UNCHANGED << current_item, session_items, run_timers, starts >>
    /\ UNCHANGED bidVars
    /\ UNCHANGED results
    /\ UNCHANGED pause

\* fail fast: the start is abandoned, the sessions built so far stay.
LoadAttendanceFail(r) ==
    /\ sched[r].pc = "attendance"
    /\ sched' = [sched EXCEPT ![r] = SchedIdle]
    /\ UNCHANGED << active, sessions, current_session_index, current_item_index,
                    current_item, session_items, run_timers, starts >>
    /\ UNCHANGED bidVars
    /\ UNCHANGED results
    /\ UNCHANGED pause

\* clear_all_timers: the tasks self.timers refers to are cancelled unless
\* they are done: the pending ones never run, a running one is stopped at
\* the await it is in or at its next one.
clear_all_timers(tms) == {t \in tms : ~t.reg}

\* finalize_session entered by the task that carries run r, up to its first
\* await.  A task self.timers refers to cancels itself here; any other goes
\* on to build the results.
finalize_session(r, sc) ==
    IF ~active THEN [active |-> active, timers |-> run_timers,
                     sched |-> [sc EXCEPT ![r] = SchedIdle]]
    ELSE [active |-> FALSE, timers |-> clear_all_timers(run_timers),
          sched |-> [x \in Runs |->
                        IF sc[x].reg THEN SchedIdle
                        ELSE IF x = r THEN [SchedIdle EXCEPT !.pc = "final_build"]
                        ELSE sc[x]]]

\* auction_next_item entered by the task of run r with these indices and
\* item, up to its sleep.
auction_next_item(r, sidx, iidx, cur) ==
    LET session == IF sidx < Len(sessions) THEN sessions[sidx + 1] ELSE None
    IN  IF session = None \/ iidx >= Len(session.items)
        THEN IF sidx + 1 >= Len(sessions)
             THEN LET f == finalize_session(r, sched)
                  IN  [sidx |-> sidx + 1, iidx |-> 0, cur |-> cur,
                       active |-> f.active, timers |-> f.timers, sched |-> f.sched]
             ELSE [sidx |-> sidx + 1, iidx |-> 0, cur |-> cur,
                   active |-> active, timers |-> run_timers,
                   sched |-> [sched EXCEPT ![r].pc = "session_gap",
                                           ![r].at = now + SESSION_GAP]]
        ELSE [sidx |-> sidx, iidx |-> iidx,
              cur |-> NewCurrentItem(session.items[iidx + 1], session),
              active |-> active, timers |-> run_timers,
              sched |-> [sched EXCEPT ![r].pc = "item_preview",
                                      ![r].at = now + ITEM_PREVIEW_TIME]]

AuctionNextItem(r) ==
    /\ sched[r].pc \in {"start_wait", "item_wait", "session_gap"}
    /\ now >= sched[r].at
    /\ LET n == auction_next_item(r, current_session_index, current_item_index,
                                  current_item)
       IN  /\ current_session_index' = n.sidx
           /\ current_item_index' = n.iidx
           /\ current_item' = n.cur
           /\ active' = n.active
           /\ run_timers' = n.timers
           /\ sched' = n.sched
    /\ UNCHANGED << sessions, session_items, starts >>
    /\ UNCHANGED bidVars
    /\ UNCHANGED results
    /\ UNCHANGED pause

\* the tasks schedule_item_timers creates for run r; each is stored in
\* self.timers under its kind.
schedule_item_timers(item, t, r) ==
    LET time_left == item.end_time - t
    IN  (IF time_left > GOING_ONCE_LEFT /\ ~item.going_once
         THEN {[kind |-> "go1", at |-> t + (time_left - GOING_ONCE_LEFT),
                run |-> r, reg |-> TRUE]} ELSE {})
        \cup
        (IF time_left > GOING_TWICE_LEFT /\ ~item.going_twice
         THEN {[kind |-> "go2", at |-> t + (time_left - GOING_TWICE_LEFT),
                run |-> r, reg |-> TRUE]} ELSE {})
        \cup
        (IF time_left > FINAL_CALL_LEFT
         THEN {[kind |-> "go3", at |-> t + (time_left - FINAL_CALL_LEFT),
                run |-> r, reg |-> TRUE]} ELSE {})
        \cup {[kind |-> "end", at |-> t + time_left, run |-> r, reg |-> TRUE]}

\* storing a task under a kind drops the reference to the task that was
\* there: that one is not cancelled, and clear_all_timers no longer finds it.
Overwritten(tms, new) ==
    {IF \E n \in new : n.kind = t.kind THEN [t EXCEPT !.reg = FALSE] ELSE t : t \in tms}

\* the preview sleep of auction_next_item is over: the clock of the item
\* starts and its timers are scheduled; the task of run r returns.
ItemPreviewDone(r) ==
    /\ sched[r].pc = "item_preview"
    /\ now >= sched[r].at
    /\ LET it == [current_item EXCEPT !.end_time = now + (current_item.duration * 60)]
           new == schedule_item_timers(it, now, r)
       IN  /\ current_item' = it
           /\ run_timers' = Overwritten(run_timers, new) \cup new
    /\ sched' = [x \in Runs |-> IF x = r THEN SchedIdle
                                ELSE [sched[x] EXCEPT !.reg = FALSE]]
    /\ UNCHANGED << active, sessions, current_session_index, current_item_index,
                    session_items, starts >>
    /\ UNCHANGED bidVars
    /\ UNCHANGED results
    /\ UNCHANGED pause

run_item_is_active == active /\ current_item # None /\ current_item.status = "active"

ItemGoingOnce ==
    \E t \in run_timers :
        /\ t.kind = "go1"
        /\ now >= t.at
        /\ run_timers' = run_timers \ {t}
        /\ current_item' = IF run_item_is_active
                           THEN [current_item EXCEPT !.going_once = TRUE]
                           ELSE current_item
        /\ UNCHANGED << active, sessions, current_session_index, current_item_index,
                        session_items, sched, starts >>
        /\ UNCHANGED bidVars
        /\ UNCHANGED results
        /\ UNCHANGED pause

ItemGoingTwice ==
    \E t \in run_timers :
        /\ t.kind = "go2"
        /\ now >= t.at
        /\ run_timers' = run_timers \ {t}
        /\ current_item' = IF run_item_is_active
                           THEN [current_item EXCEPT !.going_twice = TRUE]
                           ELSE current_item
        /\ UNCHANGED << active, sessions, current_session_index, current_item_index,
                        session_items, sched, starts >>
        /\ UNCHANGED bidVars
        /\ UNCHANGED results
        /\ UNCHANGED pause

ItemFinalCall ==
    \E t \in run_timers :
        /\ t.kind = "go3"
        /\ now >= t.at
        /\ run_timers' = run_timers \ {t}
        /\ UNCHANGED << active, sessions, current_session_index, current_item_index,
                        current_item, session_items, sched, starts >>
        /\ UNCHANGED bidVars
        /\ UNCHANGED results
        /\ UNCHANGED pause

sold_record(item) ==
    [item |-> item.item, winner |-> item.cur_winner, winner_id |-> item.cur_winner_id,
     amount |-> item.cur_bid, source |-> item.source]

\* item_end, up to the post of its result: whatever item self.current_item
\* refers to is marked ended; nothing but self.active and the presence of
\* an item is tested.
ItemEndBy(t) ==
    /\ t \in run_timers
    /\ t.kind = "end"
    /\ now >= t.at
    /\ run_timers' = run_timers \ {t}
    /\ IF ~active \/ current_item = None
       THEN UNCHANGED << current_item, sched >>
       ELSE /\ current_item' = [current_item EXCEPT !.status = "ended"]
            /\ sched' = [sched EXCEPT ![t.run] =
                            [SchedIdle EXCEPT !.pc = "item_post", !.reg = t.reg,
                                              !.sold = current_item.cur_winner # NoName]]
    /\ UNCHANGED << active, sessions, current_session_index, current_item_index,
                    session_items, starts >>
    /\ UNCHANGED bidVars
    /\ UNCHANGED results
    /\ UNCHANGED pause

ItemEnd == \E t \in run_timers : ItemEndBy(t)

\* item_end, after the post: the item is recorded if it had a winner; then
\* the next item of the session after ITEM_WAIT, or auction_next_item at
\* once.  self.sessions[self.current_session_index] raises if the list has
\* become shorter.
ItemEndNext(r) ==
    /\ sched[r].pc = "item_post"
    /\ session_items' = IF sched[r].sold /\ current_item # None
                        THEN Append(session_items, sold_record(current_item))
                        ELSE session_items
    /\ IF current_session_index >= Len(sessions)
       THEN /\ current_item_index' = current_item_index + 1
            /\ sched' = [sched EXCEPT ![r] = SchedIdle]
            /\ UNCHANGED << active, current_session_index, current_item, run_timers >>
       ELSE IF current_item_index + 1 < Len(sessions[current_session_index + 1].items)
       THEN /\ current_item_index' = current_item_index + 1
            /\ sched' = [sched EXCEPT ![r].pc = "item_wait", ![r].at = now + ITEM_WAIT]
            /\ UNCHANGED << active, current_session_index, current_item, run_timers >>
       ELSE LET n == auction_next_item(r, current_session_index,
                                       current_item_index + 1, current_item)
            IN  /\ current_session_index' = n.sidx
                /\ current_item_index' = n.iidx
                /\ current_item' = n.cur
                /\ active' = n.active
                /\ run_timers' = n.timers
                /\ sched' = n.sched
    /\ UNCHANGED << sessions, starts >>
    /\ UNCHANGED bidVars
    /\ UNCHANGED results
    /\ UNCHANGED pause

\* finalize_session, after its announcement: build_combined_results reads
\* the points from the sheet and builds the results from session_items.
FinalizeBuild(r, answer) ==
    /\ sched[r].pc = "final_build"
    /\ results' = Built(answer, session_items)
    /\ sched' = [sched EXCEPT ![r].pc = "final_submit"]
    /\ UNCHANGED << active, sessions, current_session_index, current_item_index,
                    current_item, session_items, run_timers, starts >>
    /\ UNCHANGED bidVars
    /\ UNCHANGED pause

FinalizeBuildFail(r) ==
    /\ sched[r].pc = "final_build"
    /\ results' = Built(<< >>, session_items)
    /\ sched' = [sched EXCEPT ![r].pc = "final_submit"]
    /\ UNCHANGED << active, sessions, current_session_index, current_item_index,
                    current_item, session_items, run_timers, starts >>
    /\ UNCHANGED bidVars
    /\ UNCHANGED pause

\* finalize_session, after the submission was answered: the run state is
\* cleared; self.bidding.clear_points_cache does not exist and raises.
FinalizeClear(r) ==
    /\ sched[r].pc = "final_submit"
    /\ session_items' = << >>
    /\ sessions' = << >>
    /\ sched' = Detached([sched EXCEPT ![r] = SchedIdle], r)
    /\ UNCHANGED << active, current_session_index, current_item_index,
                    current_item, run_timers, starts >>
    /\ UNCHANGED bidVars
    /\ UNCHANGED results
    /\ UNCHANGED pause

(***************************************************************************)
(* BidConfirmationWorkflow: process_bid, confirm_bid, cancel_bid,          *)
(* timeout_bid.  A slot of tasks is one process_bid coroutine; from        *)
(* "waiting" on, its record is the entry of pending_confirmations.  Once   *)
(* a handler has made its last change to the shared state, the rest of it  *)
(* (the result embed, the cleanup sleep, the deletion of the prompt and of *)
(* the entry) touches nothing another coroutine reads, and is part of the  *)
(* same action.                                                            *)
(***************************************************************************)
StoredPcs == {"waiting", "confirming", "leaked"}
pending_confirmations == {s \in Slots : tasks[s].pc \in StoredPcs}

is_self_overbid(username) ==
    active_auction.cur_winner # NoName
    /\ Lower(active_auction.cur_winner) = Lower(username)

needed_for(username, bid) ==
    IF is_self_overbid(username)
    THEN Max(0, bid - locked_of(locked_points, username))
    ELSE bid

rate_limited(u) ==
    u \in DOMAIN last_bid_time /\ now - last_bid_time[u] < RATE_LIMIT

process_bid_outcome_unfunded(u, raw, hasRole, inThread) ==
    LET username == DisplayName(u)
        bid == ParseInt(raw)
    IN  IF ~auction_is_active THEN "NoActiveAuction"
        ELSE IF ~inThread THEN "WrongThread"
        ELSE IF ~hasRole THEN "NoRole"
        ELSE IF rate_limited(u) THEN "RateLimited"
        ELSE IF bid = NotInt \/ bid <= 0 THEN "Invalid"
        ELSE IF bid <= active_auction.cur_bid THEN "TooLow"
        ELSE IF ~cache_truthy THEN "NoCache"
        ELSE IF get_points(username) = 0 THEN "NoPoints"
        ELSE "Prompt"

\* process_bid up to the confirmation prompt: the rejection, or "Prompt".
process_bid_outcome(u, raw, hasRole, inThread) ==
    LET username == DisplayName(u)
        bid == ParseInt(raw)
    IN  IF ~auction_is_active THEN "NoActiveAuction"
        ELSE IF ~inThread THEN "WrongThread"
        ELSE IF ~hasRole THEN "NoRole"
        ELSE IF rate_limited(u) THEN "RateLimited"
        ELSE IF bid = NotInt \/ bid <= 0 THEN "Invalid"
        ELSE IF bid <= active_auction.cur_bid THEN "TooLow"
        ELSE IF ~cache_truthy THEN "NoCache"
        ELSE IF get_points(username) = 0 THEN "NoPoints"
        ELSE IF needed_for(username, bid) > get_available_points(username) THEN "Insufficient"
        ELSE "Prompt"

FreeSlot(s) == tasks[s] = Free /\ \A r \in Slots : r < s => tasks[r] # Free


ProcessBid(u, raw, hasRole, inThread) ==
    LET outcome == process_bid_outcome(u, raw, hasRole, inThread)
        username == DisplayName(u)
        bid == ParseInt(raw)
    IN  /\ IF outcome = "Prompt"
           THEN \E s \in Slots :
                    /\ FreeSlot(s)
                    /\ prompts < MaxPrompts
                    /\ tasks' = [tasks EXCEPT ![s] =
                          [pc |-> "posting", user |-> u, username |-> username,
                           amount |-> bid, timestamp |-> now,
                           is_self |-> is_self_overbid(username),
                           needed |-> needed_for(username, bid), at |-> 0]]
                    /\ prompts' = prompts + 1
           ELSE UNCHANGED << tasks, prompts >>
        /\ UNCHANGED << now, queue, active_auction, locked_points, history,
                        cached_points, last_bid_time, timers, chain >>
        /\ UNCHANGED schedVars
        /\ UNCHANGED results
        /\ UNCHANGED pause

\* main.on_message for "!bid <amount>" typed in a thread of the bidding
\* channel: during a run with a current item the attendance gate comes first.
gate_rejects(u) == active /\ current_item # None /\ ~can_user_bid(DisplayName(u))

on_message_outcome(u, raw, hasRole, inThread) ==
    IF gate_rejects(u) THEN "NotAttendee"
    ELSE process_bid_outcome(u, raw, hasRole, inThread)

OnMessageBid(u, raw, hasRole, inThread) ==
    IF gate_rejects(u)
    THEN UNCHANGED vars
    ELSE ProcessBid(u, raw, hasRole, inThread)

\* the prompt and its two reactions are posted: the confirmation is stored,
\* the bidder's last-bid time stamped, and wait_for starts its 10 s.
StoreConfirmation(s) ==
    /\ tasks[s].pc = "posting"
    /\ IF active_auction = None
       THEN /\ tasks' = [tasks EXCEPT ![s] = Free]
            /\ UNCHANGED last_bid_time
       ELSE /\ tasks' = [tasks EXCEPT ![s].pc = "waiting", ![s].at = now + CONFIRM_TIMEOUT]
            /\ last_bid_time' = Put(last_bid_time, tasks[s].user, tasks[s].timestamp)
    /\ UNCHANGED << now, queue, active_auction, locked_points, history,
                    cached_points, timers, chain, prompts >>
    /\ UNCHANGED schedVars
    /\ UNCHANGED results
    /\ UNCHANGED pause

extension_applies_at_window(a, time_left) ==
    time_left <= EXTENSION_WINDOW /\ a.ext_count < MAX_EXTENSIONS

extension_applies(a, time_left) ==
    time_left < EXTENSION_WINDOW /\ a.ext_count < MAX_EXTENSIONS

\* confirm_bid from "Update auction" on: the item and the extension rule.
applied_auction(a, t) ==
    LET b == [a EXCEPT !.cur_bid = t.amount,
                       !.cur_winner = t.username,
                       !.cur_winner_id = t.user,
                       !.bids = Append(a.bids, [username |-> t.username,
                                                user_id |-> t.user,
                                                amount |-> t.amount])]
    IN  IF extension_applies(b, b.end_time - now)
        THEN [b EXCEPT !.end_time = b.end_time + EXTENSION_WINDOW,
                       !.ext_count = b.ext_count + 1,
                       !.going_once = FALSE,
                       !.going_twice = FALSE]
        ELSE b

\* confirm_bid from "Lock points" on, given the lock map it finds.  With no
\* active auction the update raises and the entry is never deleted.
ConfirmApply(s, locked) ==
    /\ locked_points' = lock_points(locked, tasks[s].username, tasks[s].needed)
    /\ IF active_auction = None
       THEN /\ UNCHANGED active_auction
            /\ tasks' = [tasks EXCEPT ![s].pc = "leaked", ![s].at = 0]
       ELSE /\ active_auction' = applied_auction(active_auction, tasks[s])
            /\ tasks' = [tasks EXCEPT ![s] = Free]

confirm_is_stale(t) == t.amount <= active_auction.cur_bid

releases_previous_winner(t) == active_auction.cur_winner # NoName /\ ~t.is_self

\* the bidder reacts with the check mark: confirm_bid up to its first await
\* that follows a change of state.
ReactConfirm(s) ==
    /\ tasks[s].pc = "waiting"
    /\ IF active_auction = None
       THEN /\ tasks' = [tasks EXCEPT ![s].pc = "leaked", ![s].at = 0]
            /\ UNCHANGED << active_auction, locked_points >>
       ELSE IF confirm_is_stale(tasks[s])
       THEN /\ tasks' = [tasks EXCEPT ![s] = Free]
            /\ UNCHANGED << active_auction, locked_points >>
       ELSE IF releases_previous_winner(tasks[s])
       THEN /\ locked_points' = unlock_points(locked_points, active_auction.cur_winner,
                                              active_auction.cur_bid)
            /\ tasks' = [tasks EXCEPT ![s].pc = "confirming", ![s].at = 0]
            /\ UNCHANGED active_auction
       ELSE ConfirmApply(s, locked_points)
    /\ UNCHANGED << now, queue, history, cached_points, last_bid_time, timers, chain, prompts >>
    /\ UNCHANGED schedVars
    /\ UNCHANGED results
    /\ UNCHANGED pause

\* the "Outbid!" notice is sent: confirm_bid goes on from "Lock points".
ConfirmResume(s) ==
    /\ tasks[s].pc = "confirming"
    /\ ConfirmApply(s, locked_points)
    /\ UNCHANGED << now, queue, history, cached_points, last_bid_time, timers, chain, prompts >>
    /\ UNCHANGED schedVars
    /\ UNCHANGED results
    /\ UNCHANGED pause

dropped_locked_releasing(locked, t) == unlock_points(locked, t.username, t.needed)

\* what cancel_bid and timeout_bid leave of the lock map and of the item.
dropped_locked(locked, t) == locked
dropped_auction(a, t) == a

\* the bidder reacts with the cross: cancel_bid.
ReactCancel(s) ==
    /\ tasks[s].pc = "waiting"
    /\ tasks' = [tasks EXCEPT ![s] = Free]
    /\ locked_points' = dropped_locked(locked_points, tasks[s])
    /\ active_auction' = dropped_auction(active_auction, tasks[s])
    /\ UNCHANGED << now, queue, history, cached_points, last_bid_time, timers, chain, prompts >>
    /\ UNCHANGED schedVars
    /\ UNCHANGED results
    /\ UNCHANGED pause

\* wait_for ran out after CONFIRM_TIMEOUT: timeout_bid.
TimeoutBid(s) ==
    /\ tasks[s].pc = "waiting"
    /\ now >= tasks[s].at
    /\ tasks' = [tasks EXCEPT ![s] = Free]
    /\ locked_points' = dropped_locked(locked_points, tasks[s])
    /\ active_auction' = dropped_auction(active_auction, tasks[s])
    /\ UNCHANGED << now, queue, history, cached_points, last_bid_time, timers, chain, prompts >>
    /\ UNCHANGED schedVars
    /\ UNCHANGED results
    /\ UNCHANGED pause

(***************************************************************************)
(* Time.  A coroutine suspended on the network (a post to Discord, a       *)
(* request to the sheet) resumes within the instant; only sleeps, timers   *)
(* and wait_for let time pass.                                             *)
(***************************************************************************)
Deadlines ==
    {t.at : t \in timers}
    \cup {t.at : t \in run_timers}
    \cup (IF chain.pc \in {"preview", "gap"} THEN {chain.at} ELSE {})
    \cup {sched[r].at : r \in {x \in Runs : sched[x].pc \in
                 {"start_wait", "item_wait", "session_gap", "item_preview"}}}
    \cup {tasks[s].at : s \in {r \in Slots : tasks[r].pc = "waiting"}}

OnNetwork ==
    \/ chain.pc \in {"loading", "ending", "archiving", "finalizing"}
    \/ \E r \in Runs : sched[r].pc \in {"load_points", "fetch_items", "attendance",
                                       "item_post", "final_build", "final_submit"}
    \/ \E s \in Slots : tasks[s].pc \in {"posting", "confirming"}

Tick ==
    /\ ~OnNetwork
    /\ Deadlines # {}
    /\ \A d \in Deadlines : d > now
    /\ now' = now + Quantum
    /\ UNCHANGED << queue, active_auction, locked_points, history, cached_points,
                    last_bid_time, tasks, timers, chain, prompts >>
    /\ UNCHANGED schedVars
    /\ UNCHANGED results
    /\ UNCHANGED pause

(***************************************************************************)
(* The BiddingSystem on its own: an operator has queued one item and       *)
(* starts it; members bid in the item's thread.                            *)
(***************************************************************************)
WithIds(q) == [i \in 1..Len(q) |->
                  [id |-> i, start_price |-> q[i].start_price,
                   duration |-> q[i].duration, quantity |-> q[i].quantity]]

SchedInit ==
    /\ active = FALSE
    /\ sessions = << >>
    /\ current_session_index = 0
    /\ current_item_index = 0
    /\ current_item = None
    /\ session_items = << >>
    /\ run_timers = {}
    /\ sched = [r \in Runs |-> SchedIdle]
    /\ starts = 0

BidInit ==
    /\ now = 0
    /\ active_auction = None
    /\ locked_points = EmptyDict
    /\ history = << >>
    /\ cached_points = NoCache
    /\ last_bid_time = EmptyDict
    /\ tasks = [s \in Slots |-> Free]
    /\ timers = {}
    /\ chain = Idle
    /\ prompts = 0
    /\ results = None
    /\ pause = NotPaused

Init ==
    /\ queue \in {WithIds(<< i >>) : i \in QueueItems}
    /\ BidInit
    /\ SchedInit

Next ==
    \/ StartAuction
    \/ \E answer \in SheetAnswers : LoadPointsOk(answer)
    \/ LoadPointsFail
    \/ ActivateAuction
    \/ TimerGoingOnce
    \/ TimerGoingTwice
    \/ TimerFinalCall
    \/ TimerEndAuction
    \/ EndAuctionRecord
    \/ EndAuctionRemove
    \/ FinalizeSessionOk
    \/ FinalizeSessionFail
    \/ \E u \in Users, raw \in RawAmounts, hasRole \in BOOLEAN, inThread \in BOOLEAN :
           OnMessageBid(u, raw, hasRole, inThread)
    \/ \E s \in Slots : StoreConfirmation(s)
    \/ \E s \in Slots : ReactConfirm(s)
    \/ \E s \in Slots : ConfirmResume(s)
    \/ \E s \in Slots : ReactCancel(s)
    \/ \E s \in Slots : TimeoutBid(s)
    \/ Tick

Spec == Init /\ [][Next]_vars

\* what the event loop guarantees: a sleep that is over returns, an awaited
\* post or request returns, wait_for times out.  Nothing obliges a member to
\* bid or to react.
Fairness ==
    /\ WF_vars(Tick)
    /\ WF_vars((\E answer \in SheetAnswers : LoadPointsOk(answer)) \/ LoadPointsFail)
    /\ WF_vars(ActivateAuction)
    /\ WF_vars(TimerGoingOnce)
    /\ WF_vars(TimerGoingTwice)
    /\ WF_vars(TimerFinalCall)
    /\ WF_vars(TimerEndAuction)
    /\ WF_vars(EndAuctionRecord)
    /\ WF_vars(EndAuctionRemove)
    /\ WF_vars(FinalizeSessionOk \/ FinalizeSessionFail)
    /\ \A s \in Slots :
          /\ WF_vars(StoreConfirmation(s))
          /\ WF_vars(ConfirmResume(s))
          /\ WF_vars(TimeoutBid(s))

SpecFair == Spec /\ Fairness

(***************************************************************************)
(* Two queued items: when the first has ended, end_auction starts the      *)
(* second after the gap, and start_auction loads the snapshot again while  *)
(* the locks of the first item are held.  One member bids.                 *)
(***************************************************************************)
ReloadQueue == WithIds(<< [start_price |-> 0, duration |-> 1, quantity |-> 1],
                          [start_price |-> 0, duration |-> 2, quantity |-> 1] >>)

InitReload ==
    /\ queue = ReloadQueue
    /\ BidInit
    /\ SchedInit

NextReload ==
    \/ StartAuction
    \/ \E answer \in SheetAnswers : LoadPointsOk(answer)
    \/ LoadPointsFail
    \/ ActivateAuction
    \/ TimerGoingOnce
    \/ TimerGoingTwice
    \/ TimerFinalCall
    \/ TimerEndAuction
    \/ EndAuctionRecord
    \/ EndAuctionRemove
    \/ NextAuction
    \/ FinalizeSessionOk
    \/ FinalizeSessionFail
    \/ \E raw \in RawAmounts : OnMessageBid(1, raw, TRUE, TRUE)
    \/ \E s \in Slots : StoreConfirmation(s)
    \/ \E s \in Slots : ReactConfirm(s)
    \/ \E s \in Slots : ConfirmResume(s)
    \/ \E s \in Slots : ReactCancel(s)
    \/ \E s \in Slots : TimeoutBid(s)
    \/ Tick

SpecReload == InitReload /\ [][NextReload]_vars

(***************************************************************************)
(* The program as main.py wires it: no command calls start_auction, so    *)
(* the BiddingSystem has no auction; its queue is empty, or holds an item  *)
(* queued through add_to_queue; an admin starts runs of the scheduler,     *)
(* members type bids.                                                      *)
(***************************************************************************)
ManualQueues == {<< >>, WithIds(<< [start_price |-> 1, duration |-> 1, quantity |-> 1] >>)}

InitRun ==
    /\ queue \in ManualQueues
    /\ BidInit
    /\ SchedInit

NextRun ==
    \/ StartAuctioneering
    \/ \E r \in Runs, answer \in SheetAnswers : RunLoadPoints(r, answer)
    \/ \E r \in Runs : RunLoadPointsFail(r)
    \/ \E r \in Runs, answer \in SheetItemLists : FetchSheetItems(r, answer)
    \/ \E r \in Runs : FetchSheetItemsFail(r)
    \/ \E r \in Runs, answer \in AttendanceAnswers : LoadAttendance(r, answer)
    \/ \E r \in Runs : LoadAttendanceFail(r)
    \/ \E r \in Runs : AuctionNextItem(r)
    \/ \E r \in Runs : ItemPreviewDone(r)
    \/ ItemGoingOnce
    \/ ItemGoingTwice
    \/ ItemFinalCall
    \/ ItemEnd
    \/ \E r \in Runs : ItemEndNext(r)
    \/ \E r \in Runs, answer \in SheetAnswers : FinalizeBuild(r, answer)
    \/ \E r \in Runs : FinalizeBuildFail(r)
    \/ \E r \in Runs : FinalizeClear(r)
    \/ \E u \in Users, raw \in RawAmounts, hasRole \in BOOLEAN, inThread \in BOOLEAN :
           OnMessageBid(u, raw, hasRole, inThread)
    \/ Tick

SpecRun == InitRun /\ [][NextRun]_vars

\* what the event loop guarantees to the coroutines of a run: time passes,
\* a sleep that is over returns, a request or a post returns (answered or
\* failed).  Nothing obliges the admin to start or a member to bid.
FairnessRun ==
    /\ WF_vars(Tick)
    /\ WF_vars(ItemGoingOnce)
    /\ WF_vars(ItemGoingTwice)
    /\ WF_vars(ItemFinalCall)
    /\ WF_vars(ItemEnd)
    /\ \A r \in Runs :
          /\ WF_vars((\E answer \in SheetAnswers : RunLoadPoints(r, answer))
                     \/ RunLoadPointsFail(r))
          /\ WF_vars((\E answer \in SheetItemLists : FetchSheetItems(r, answer))
                     \/ FetchSheetItemsFail(r))
          /\ WF_vars((\E answer \in AttendanceAnswers : LoadAttendance(r, answer))
                     \/ LoadAttendanceFail(r))
          /\ WF_vars(AuctionNextItem(r))
          /\ WF_vars(ItemPreviewDone(r))
          /\ WF_vars(ItemEndNext(r))
          /\ WF_vars((\E answer \in SheetAnswers : FinalizeBuild(r, answer))
                     \/ FinalizeBuildFail(r))
          /\ WF_vars(FinalizeClear(r))

\* a request of a start to the sheet may take time (post_to_sheet gives it
\* up to 30 s): the clock advances while a start awaits its response, here
\* within the first MaxSlow seconds.
MaxSlow == 60

SlowTick ==
    /\ \E r \in Runs : sched[r].pc \in {"load_points", "fetch_items", "attendance"}
    /\ \A r \in Runs : sched[r].pc \notin {"item_post", "final_build", "final_submit"}
    /\ \A s \in Slots : tasks[s].pc \notin {"posting", "confirming"}
    /\ \A d \in Deadlines : d > now
    /\ now < MaxSlow
    /\ now' = now + Quantum
    /\ UNCHANGED << queue, active_auction, locked_points, history, cached_points,
                    last_bid_time, tasks, timers, chain, prompts >>
    /\ UNCHANGED schedVars
    /\ UNCHANGED results
    /\ UNCHANGED pause

NextRunSlow == NextRun \/ SlowTick

SpecRunFair == InitRun /\ [][NextRunSlow]_vars /\ FairnessRun

(***************************************************************************)
(* Runs with the operator's reset.  !clearstate empties the queue and the  *)
(* sessions (in place: a start that iterates over them finds no further    *)
(* session), drops the auction and sets active to False; it cancels no     *)
(* task and leaves current_item, the indices and session_items alone.      *)
(* Here the admin starts a run only when no other start is under way.      *)
(***************************************************************************)
ClearState ==
    /\ queue' = << >>
    /\ active_auction' = None
    /\ active' = FALSE
    /\ sessions' = << >>
    /\ sched' = Detached(sched, 0)
    /\ UNCHANGED << current_session_index, current_item_index, current_item,
                    session_items, run_timers, starts >>
    /\ UNCHANGED << now, locked_points, history, cached_points, last_bid_time,
                    tasks, timers, chain, prompts >>
    /\ UNCHANGED results
    /\ UNCHANGED pause

Starting(r) == sched[r].pc \in {"load_points", "fetch_items", "attendance"}

StartAlone ==
    /\ \A r \in Runs : ~Starting(r)
    /\ StartAuctioneering

NextClear ==
    \/ StartAlone
    \/ ClearState
    \/ \E r \in Runs, answer \in SheetAnswers : RunLoadPoints(r, answer)
    \/ \E r \in Runs : RunLoadPointsFail(r)
    \/ \E r \in Runs, answer \in SheetItemLists : FetchSheetItems(r, answer)
    \/ \E r \in Runs : FetchSheetItemsFail(r)
    \/ \E r \in Runs, answer \in AttendanceAnswers : LoadAttendance(r, answer)
    \/ \E r \in Runs : LoadAttendanceFail(r)
    \/ \E r \in Runs : AuctionNextItem(r)
    \/ \E r \in Runs : ItemPreviewDone(r)
    \/ ItemGoingOnce
    \/ ItemGoingTwice
    \/ ItemFinalCall
    \/ ItemEnd
    \/ \E r \in Runs : ItemEndNext(r)
    \/ \E r \in Runs, answer \in SheetAnswers : FinalizeBuild(r, answer)
    \/ \E r \in Runs : FinalizeBuildFail(r)
    \/ \E r \in Runs : FinalizeClear(r)
    \/ Tick

SpecClear == InitRun /\ [][NextClear]_vars

(***************************************************************************)
(* The settlement on its own: the sales of a session are on record (in     *)
(* history for the BiddingSystem, in session_items for the scheduler), the *)
(* snapshot is cached, and the results list is built.                      *)
(***************************************************************************)
MaxRecords == 2        \* most sales on record when the settlement is built

SettleSnapshots ==
    { << >>,
      << [name |-> "ALICE", pts |-> MaxPoints], [name |-> "Bob ", pts |-> MaxPoints - 1] >>,
      << [name |-> "alice", pts |-> MaxPoints], [name |-> "Bob", pts |-> MaxPoints - 1],
         [name |-> "bob", pts |-> 1] >> }

SaleAmounts == {1, MaxBid}
Sales == UNION {[1..k -> [winner_id : Users, amount : SaleAmounts]] : k \in 0..MaxRecords}

history_of(sales) ==
    [i \in 1..Len(sales) |->
        [item |-> i, winner |-> DisplayName(sales[i].winner_id),
         winner_id |-> sales[i].winner_id, amount |-> sales[i].amount]]

session_items_of(sales) ==
    [i \in 1..Len(sales) |->
        [item |-> "Sword", winner |-> DisplayName(sales[i].winner_id),
         winner_id |-> sales[i].winner_id, amount |-> sales[i].amount,
         source |-> "GoogleSheet"]]

\* AuctioneeringSystem.build_combined_results: the snapshot is fetched anew.
BuildCombinedResults(answer) ==
    /\ results' = Built(answer, session_items)
    /\ UNCHANGED << bidVars, schedVars >>
    /\ UNCHANGED pause

\* the request failed or its body did not parse: all_points stays {}.
BuildCombinedResultsFail ==
    /\ results' = Built(<< >>, session_items)
    /\ UNCHANGED << bidVars, schedVars >>
    /\ UNCHANGED pause

\* BiddingSystem.finalize_session up to its request to the sheet.
FinalizeBuildResults ==
    /\ Len(history) > 0
    /\ cached_points.loaded
    /\ results' = Built(cached_points.points, history)
    /\ UNCHANGED << bidVars, schedVars >>
    /\ UNCHANGED pause

InitSettle ==
    /\ now = 0
    /\ queue = << >>
    /\ active_auction = None
    /\ locked_points = EmptyDict
    /\ history \in {history_of(x) : x \in Sales}
    /\ cached_points \in {[loaded |-> TRUE, points |-> x] : x \in SettleSnapshots}
    /\ last_bid_time = EmptyDict
    /\ tasks = [s \in Slots |-> Free]
    /\ timers = {}
    /\ chain = Idle
    /\ prompts = 0
    /\ results = None
    /\ pause = NotPaused
    /\ active = FALSE
    /\ sessions = << >>
    /\ current_session_index = 0
    /\ current_item_index = 0
    /\ current_item = None
    /\ session_items \in {session_items_of(x) : x \in Sales}
    /\ run_timers = {}
    /\ sched = [r \in Runs |-> SchedIdle]
    /\ starts = 0

NextSettle ==
    \/ \E answer \in SettleSnapshots : BuildCombinedResults(answer)
    \/ BuildCombinedResultsFail
    \/ FinalizeBuildResults

SpecSettle == InitSettle /\ [][NextSettle]_vars

(***************************************************************************)
(* Pause and resume of the item.  The commands are announced (aliases in   *)
(* main.py, help texts) and the warning timers test self.paused, but no    *)
(* code of src/PYTHON assigns it: the two operations are taken from the    *)
(* specification.  Pausing sets the flag; resuming clears it, adds the     *)
(* paused duration to end_time and recomputes the timers of the item.      *)
(***************************************************************************)
MaxPauses == 2         \* pause commands in one run of the model

Pause ==
    /\ auction_is_active
    /\ ~paused
    /\ pause.count < MaxPauses
    /\ pause' = [paused |-> TRUE, at |-> now, count |-> pause.count + 1]
    /\ UNCHANGED bidVars
    /\ UNCHANGED schedVars
    /\ UNCHANGED results

Resume ==
    /\ paused
    /\ pause' = [pause EXCEPT !.paused = FALSE, !.at = 0]
    /\ IF auction_is_active
       THEN LET a == [active_auction EXCEPT !.end_time = @ + (now - pause.at)]
            IN  /\ active_auction' = a
                /\ timers' = schedule_auction_timers(a, now)
       ELSE UNCHANGED << active_auction, timers >>
    /\ UNCHANGED << now, queue, locked_points, history, cached_points,
                    last_bid_time, tasks, chain, prompts >>
    /\ UNCHANGED schedVars
    /\ UNCHANGED results

NextPause ==
    \/ StartAuction
    \/ \E answer \in SheetAnswers : LoadPointsOk(answer)
    \/ LoadPointsFail
    \/ ActivateAuction
    \/ TimerGoingOnce
    \/ TimerGoingTwice
    \/ TimerFinalCall
    \/ TimerEndAuction
    \/ EndAuctionRecord
    \/ EndAuctionRemove
    \/ Pause
    \/ Resume
    \/ Tick

SpecPause == Init /\ [][NextPause]_vars

(***************************************************************************)
(* The lock map on its own: lock_points and unlock_points applied in any   *)
(* order, with any member name and any amount from 0 on.                   *)
(***************************************************************************)
MaxLocked == 4         \* largest locked amount the reserve operations build up

LedgerNames == {"Alice", "Bob", "bob"}

LedgerReserve(n, amount) ==
    /\ locked_of(locked_points, n) + amount <= MaxLocked
    /\ locked_points' = lock_points(locked_points, n, amount)
    /\ UNCHANGED << now, queue, active_auction, history, cached_points,
                    last_bid_time, tasks, timers, chain, prompts >>
    /\ UNCHANGED schedVars
    /\ UNCHANGED results
    /\ UNCHANGED pause

LedgerRelease(n, amount) ==
    /\ locked_points' = unlock_points(locked_points, n, amount)
    /\ UNCHANGED << now, queue, active_auction, history, cached_points,
                    last_bid_time, tasks, timers, chain, prompts >>
    /\ UNCHANGED schedVars
    /\ UNCHANGED results
    /\ UNCHANGED pause

InitLedger ==
    /\ queue = << >>
    /\ BidInit
    /\ SchedInit

NextLedger ==
    \/ \E n \in LedgerNames, amount \in 0..MaxLocked : LedgerReserve(n, amount)
    \/ \E n \in LedgerNames, amount \in 0..(MaxLocked + 1) : LedgerRelease(n, amount)

SpecLedger == InitLedger /\ [][NextLedger]_vars

(***************************************************************************)
(* Properties of the BiddingSystem, checked under Spec.                    *)
(***************************************************************************)
TotalOf(n) == get_points(n)
LockedOf(n) == locked_of(locked_points, n)

\* C1: in every reachable state and for every member name, the available
\* points are max(0, total - locked), and never negative.
C1_AvailableIsFlooredDifference ==
    \A n \in Names :
        /\ get_available_points(n) >= 0
        /\ get_available_points(n) =
              IF TotalOf(n) >= LockedOf(n) THEN TotalOf(n) - LockedOf(n) ELSE 0

\* a member of the snapshot holds locks beyond the member's total: the floor
\* of get_available_points is what keeps the available points at 0.
C1_Witness_LockedAboveTotal ==
    \E n \in Names : TotalOf(n) > 0 /\ LockedOf(n) > TotalOf(n)

SameItem == active_auction # None /\ active_auction' # None
            /\ active_auction'.id = active_auction.id

\* the step applies the confirmation of slot s to the item.
Applies(s) ==
    /\ SameItem
    /\ tasks[s].pc \in {"waiting", "confirming"}
    /\ tasks'[s] = Free
    /\ active_auction'.bids =
          Append(active_auction.bids, [username |-> tasks[s].username,
                                       user_id |-> tasks[s].user,
                                       amount |-> tasks[s].amount])

\* C2: over the lifetime of an item the current bid never decreases: every
\* step that keeps the item leaves cur_bid at least as large as it was.
C2_CurrentBidNeverDecreases ==
    [][ SameItem => active_auction'.cur_bid >= active_auction.cur_bid ]_vars

\* C3: with two pending confirmations a < b on the item, once b's bidder has
\* confirmed, the attempt to confirm a is rejected: the step that takes a out
\* of its wait drops a's record and leaves the item and the lock map alone.
C3_LaterLowerConfirmationIsStale ==
    [][ \A a, b \in Slots :
           ( /\ SameItem
             /\ tasks[a].pc = "waiting"
             /\ tasks[b].pc = "confirming"
             /\ tasks[a].amount < tasks[b].amount
             /\ tasks'[a].pc # "waiting" )
           => ( /\ tasks'[a] = Free
                /\ active_auction' = active_auction
                /\ locked_points' = locked_points ) ]_vars

\* C4: when the current winner, holding locks equal to the current bid x,
\* is confirmed at a higher amount y, the bidder's locks afterwards equal y.
C4_SelfOverbidLocksEqualNewBid ==
    [][ \A s \in Slots :
           ( /\ Applies(s)
             /\ Lower(active_auction.cur_winner) = Lower(tasks[s].username)
             /\ LockedOf(tasks[s].username) = active_auction.cur_bid
             /\ tasks[s].amount > active_auction.cur_bid )
           => locked_of(locked_points', tasks[s].username) = tasks[s].amount ]_vars

\* the time at which the scheduled end callback of the item runs.
EndTimers == {t \in timers : t.kind = "end"}
RemainingToEnd == (CHOOSE t \in EndTimers : TRUE).at - now

\* C5: the extension count never exceeds MAX_EXTENSIONS, and every bid
\* confirmed with less than 60 s left before the item ends, while fewer than
\* MAX_EXTENSIONS extensions were given, extends the item once more.
C5_EveryLateBidExtendsUpToCap ==
    [][ /\ active_auction' # None => active_auction'.ext_count <= MAX_EXTENSIONS
        /\ \A s \in Slots :
              ( /\ Applies(s)
                /\ active_auction.status = "active"
                /\ EndTimers # {}
                /\ RemainingToEnd < EXTENSION_WINDOW
                /\ active_auction.ext_count < MAX_EXTENSIONS )
              => ( /\ active_auction'.ext_count = active_auction.ext_count + 1
                   /\ active_auction'.end_time = active_auction.end_time + EXTENSION_WINDOW ) ]_vars

\* C6: an active item never becomes ended while the time is before its
\* current end_time.
C6_NeverEndsBeforeEndTime ==
    [][ ( /\ SameItem
          /\ active_auction.status = "active"
          /\ active_auction'.status = "ended" )
        => now >= active_auction.end_time ]_vars

\* C10: a pending confirmation that is cancelled, or that times out (which
\* happens no sooner than CONFIRM_TIMEOUT after the prompt), is dropped, and
\* the lock map and the item (cur_bid, cur_winner, bids) stay as they were.
C10_CancelAndTimeoutOnlyDropThePending ==
    [][ \A s \in Slots :
           /\ TimeoutBid(s) => now >= tasks[s].timestamp + CONFIRM_TIMEOUT
           /\ (ReactCancel(s) \/ TimeoutBid(s))
              => ( /\ s \in pending_confirmations
                   /\ tasks'[s] = Free
                   /\ locked_points' = locked_points
                   /\ active_auction' = active_auction ) ]_vars

\* Bob's prompt was posted after Alice's confirmation window had closed, so
\* above the bid she holds, and it is gone without another bid recorded:
\* it was cancelled or it timed out, with Alice's points locked.
C10_Witness_DroppedWhileLocked ==
    /\ auction_is_active
    /\ \A s \in Slots : tasks[s] = Free
    /\ active_auction.cur_winner = DisplayName(1)
    /\ Len(active_auction.bids) = 1
    /\ LockedOf(DisplayName(1)) > 0
    /\ 1 \in DOMAIN last_bid_time /\ 2 \in DOMAIN last_bid_time
    /\ last_bid_time[2] > last_bid_time[1] + CONFIRM_TIMEOUT

(***************************************************************************)
(* Properties of the run of the scheduler, checked under SpecRun.          *)
(***************************************************************************)
RunItemOpen == run_item_is_active /\ current_item.end_time > now

\* C7: while the run has an active current item, a bid of an eligible member
\* that passes validation (an amount above the item's current bid, within
\* the member's available points) goes on to its confirmation, the only way
\* for it to become the item's current bid and winner.
C7_RunBidReachesConfirmation ==
    \A u \in Users, raw \in RawAmounts :
        ( /\ RunItemOpen
          /\ can_user_bid(DisplayName(u))
          /\ ~rate_limited(u)
          /\ ParseInt(raw) > current_item.cur_bid
          /\ ParseInt(raw) <= get_available_points(DisplayName(u)) )
        => on_message_outcome(u, raw, TRUE, TRUE) = "Prompt"

RosterOf(item) == item.current_session.attendees
OnRoster(item, n) == \E i \in 1..Len(RosterOf(item)) : Lower(RosterOf(item)[i]) = Lower(n)
OpenSessionItem ==
    NewCurrentItem([item |-> "Ring", start_price |-> 1, duration |-> 1, quantity |-> 1,
                    source |-> "GoogleSheet", sheet_index |-> 0, batch_number |-> 0,
                    batch_total |-> 0],
                   [boss_key |-> NoKey, boss_name |-> "", items |-> << >>,
                    attendees |-> << "Bob" >>])

\* C8: on an item of an open session every name may bid; on an item of a
\* boss-keyed session a name may bid iff it equals an entry of the roster
\* up to case, and during a run the bid of any other name is rejected with
\* no change of state: no confirmation, no lock, no change of an item.
C8_EligibilityGate ==
    /\ [](\A n \in Names :
            /\ can_user_bid_on(OpenSessionItem, n)
            /\ can_user_bid_on(None, n)
            /\ (current_item # None /\ current_item.current_session.boss_key # NoKey)
               => (can_user_bid(n) <=> OnRoster(current_item, n)))
    /\ [](\A u \in Users, raw \in RawAmounts :
            (active /\ current_item # None /\ ~OnRoster(current_item, DisplayName(u)))
            => on_message_outcome(u, raw, TRUE, TRUE) = "NotAttendee")
    /\ [][ \A u \in Users, raw \in RawAmounts, hasRole \in BOOLEAN, inThread \in BOOLEAN :
             ( /\ active /\ current_item # None
               /\ ~OnRoster(current_item, DisplayName(u))
               /\ OnMessageBid(u, raw, hasRole, inThread) )
             => UNCHANGED vars ]_vars

\* the roster of the open item admits Alice by folding case only, and
\* does not admit Bob.
C8_Witness_AdmittedByCaseOnly ==
    /\ RunItemOpen
    /\ can_user_bid("Alice")
    /\ \A i \in 1..Len(RosterOf(current_item)) : RosterOf(current_item)[i] # "Alice"
    /\ ~can_user_bid("Bob")
    /\ gate_rejects(2)

(***************************************************************************)
(* Properties of the settlement, checked under SpecSettle.                 *)
(***************************************************************************)
RECURSIVE SpentFolded(_, _)
SpentFolded(records, member) ==
    IF records = << >> THEN 0
    ELSE (IF Lower(Head(records).winner) = Lower(member) THEN Head(records).amount ELSE 0)
         + SpentFolded(Tail(records), member)

RECURSIVE SpentFoldedTrimmed(_, _)
SpentFoldedTrimmed(records, member) ==
    IF records = << >> THEN 0
    ELSE (IF Strip(Lower(Head(records).winner)) = Strip(Lower(member))
          THEN Head(records).amount ELSE 0)
         + SpentFoldedTrimmed(Tail(records), member)

OneEntryPerMember ==
    /\ Len(results.entries) = Len(results.points)
    /\ \A i \in 1..Len(results.points) :
          Cardinality({j \in 1..Len(results.entries) :
                          results.entries[j].member = results.points[i].name}) = 1

Unresolved(u) == {s \in Slots : tasks[s].pc = "waiting" /\ tasks[s].user = u}

\* C11: at any time a bidder has at most one pending confirmation on the
\* item that still waits for the bidder's reaction.
C11_OnePendingPerBidder ==
    \A u \in Users : Cardinality(Unresolved(u)) <= 1

\* C12: once a submission of a bidder has passed the rate-limit check, every
\* further submission of that bidder within RATE_LIMIT is answered as
\* rate-limited, also while the prompt of the first is still being posted.
C12_PassedCheckBlocksNextSubmission ==
    \A s \in Slots, raw \in RawAmounts :
        ( /\ tasks[s].pc \in {"posting", "waiting"}
          /\ now - tasks[s].timestamp < RATE_LIMIT
          /\ auction_is_active )
        => process_bid_outcome(tasks[s].user, raw, TRUE, TRUE) = "RateLimited"

\* the amount a bid of this member must find available.
NeedOf(n, bid) ==
    IF active_auction.cur_winner # NoName /\ Lower(active_auction.cur_winner) = Lower(n)
    THEN (IF bid > LockedOf(n) THEN bid - LockedOf(n) ELSE 0)
    ELSE bid

AvailableOf(n) == IF TotalOf(n) > LockedOf(n) THEN TotalOf(n) - LockedOf(n) ELSE 0

\* the bid must be rejected at validation.
ShouldReject(u, raw, hasRole, inThread) ==
    \/ active_auction = None
    \/ active_auction.status # "active"
    \/ ~inThread
    \/ ~hasRole
    \/ (u \in DOMAIN last_bid_time /\ now - last_bid_time[u] < RATE_LIMIT)
    \/ ParseInt(raw) = NotInt
    \/ ParseInt(raw) <= 0
    \/ ParseInt(raw) <= active_auction.cur_bid
    \/ ~cached_points.loaded
    \/ cached_points.points = << >>
    \/ TotalOf(DisplayName(u)) = 0
    \/ NeedOf(DisplayName(u), ParseInt(raw)) > AvailableOf(DisplayName(u))

\* C13: a bid that is rejected at validation creates no pending confirmation
\* and leaves the lock map, the snapshot and the item as they were.
C13_RejectedBidChangesNothing ==
    [][ ( \/ tasks' # tasks
          \/ locked_points' # locked_points
          \/ cached_points' # cached_points
          \/ active_auction' # active_auction )
        => \A u \in Users, raw \in RawAmounts, hasRole \in BOOLEAN, inThread \in BOOLEAN :
              ~ ( ShouldReject(u, raw, hasRole, inThread)
                  /\ OnMessageBid(u, raw, hasRole, inThread) ) ]_vars

\* a bid above the current bid would be rejected for want of available
\* points, while points are locked and a confirmation is pending.
C13_Witness_InsufficientWhileLocked ==
    /\ auction_is_active
    /\ locked_points # EmptyDict
    /\ pending_confirmations # {}
    /\ \E u \in Users, raw \in RawAmounts :
          /\ ParseInt(raw) > active_auction.cur_bid
          /\ on_message_outcome(u, raw, TRUE, TRUE) = "Insufficient"

\* C14: the lock map changes only in a step of a confirmation that is
\* applied to the item (or has released the previous winner and is about
\* to be applied), and when the run is cleared; never in the proposal phase.
C14_LocksChangeOnlyOnAppliedConfirmation ==
    [][ locked_points' # locked_points
        => \/ FinalizeSessionOk
           \/ \E s \in Slots :
                 /\ ReactConfirm(s) \/ ConfirmResume(s)
                 /\ Applies(s) \/ tasks'[s].pc = "confirming" ]_vars

\* C15: an ended item is terminal: while the item is ended neither the item
\* nor the lock map changes, and a confirmation handled when the item no
\* longer exists leaves the lock map as it was.
C15_EndedItemIsTerminal ==
    [][ /\ (SameItem /\ active_auction.status = "ended")
           => (active_auction' = active_auction /\ locked_points' = locked_points)
        /\ \A s \in Slots :
              (active_auction = None /\ (ReactConfirm(s) \/ ConfirmResume(s)))
              => locked_points' = locked_points ]_vars


(***************************************************************************)
(* Properties of the order of a run and of its start, checked under        *)
(* SpecRun.                                                                *)
(***************************************************************************)
RECURSIVE FlatItems(_)
FlatItems(ss) ==
    IF ss = << >> THEN << >>
    ELSE [i \in 1..Len(Head(ss).items) |->
             << Head(ss).items[i].boss_key, Head(ss).items[i].sheet_index,
                Head(ss).items[i].batch_number >>] \o FlatItems(Tail(ss))

\* the place of an item in the order of the run; 0 if it is no item of it.
PlaceOf(item) ==
    LET flat == FlatItems(sessions)
        id == << item.boss_key_of_session, item.sheet_index, item.batch_number >>
        at == {i \in 1..Len(flat) : flat[i] = id}
    IN  IF at = {} THEN 0 ELSE CHOOSE i \in at : TRUE

ItemKey(item) ==
    [boss_key_of_session |-> item.current_session.boss_key,
     sheet_index |-> item.sheet_index, batch_number |-> item.batch_number]

\* the task of run r puts an item in flight in this step.
PutsInFlight(r) == sched[r].pc # "item_preview" /\ sched'[r].pc = "item_preview"

\* C16: an item is put in flight only when the previous one has ended; the
\* first item of a run is the first of the first session, every other is
\* the successor of the previous one in the order of sessions and items; a
\* run is finalized only with its last item ended.
C16_OneItemAtATimeInOrder ==
    [][ /\ \A r \in Runs : PutsInFlight(r) =>
              /\ current_item = None \/ current_item.status = "ended"
              /\ PlaceOf(ItemKey(current_item')) =
                    IF sched[r].pc = "start_wait" THEN 1
                    ELSE PlaceOf(ItemKey(current_item)) + 1
        /\ (active /\ ~active') =>
              /\ current_item # None
              /\ current_item.status = "ended"
              /\ PlaceOf(ItemKey(current_item)) = Len(FlatItems(sessions)) ]_vars


\* C17: a timer callback of the scheduler that fires while the current item
\* is not active (ended already, or no run) does nothing: in particular the
\* end callback does not end the item again, start the post of a result or
\* let the run advance.
C17_TimerOnInactiveItemIsNoOp ==
    [][ ( /\ ~run_item_is_active
          /\ (ItemGoingOnce \/ ItemGoingTwice \/ ItemFinalCall \/ ItemEnd) )
        => UNCHANGED << active, sessions, current_session_index, current_item_index,
                        current_item, session_items, sched >> ]_vars

\* the start of run r is abandoned in this step for one of the failures the
\* code reports: the snapshot or the catalog could not be loaded, no session
\* resulted, a roster could not be loaded.
StartFails(r) ==
    /\ sched[r].pc \in {"load_points", "fetch_items", "attendance"}
    /\ sched'[r].pc = "idle"
    /\ queue = << >>

\* C18: a failed start leaves the scheduler idle, that is not active and
\* with no current item, so that the next start request passes the guard of
\* start_auctioneering.
C18_FailedStartLeavesIdle ==
    [][ \A r \in Runs : StartFails(r) => (~active' /\ current_item' = None) ]_vars

AllRostersLoaded(ss) == \A i \in 1..Len(ss) : ss[i].boss_key # NoKey => ss[i].loaded

\* C19: the run becomes active only with the roster of every boss-keyed
\* session loaded; a start whose roster load fails is abandoned without
\* making the run active; and no item is put in flight while a session of
\* the list is without its roster.
C19_FailFastAttendance ==
    [][ /\ (active' /\ ~active) => AllRostersLoaded(sessions')
        /\ \A r \in Runs :
              /\ LoadAttendanceFail(r) => (sched'[r].pc = "idle" /\ active' = active)
              /\ PutsInFlight(r) => AllRostersLoaded(sessions) ]_vars

\* C20: when the sessions of a run are built while the queue holds manual
\* items, these are the items of one open session, which is the first of
\* the list and the only one without a boss key.
C20_ManualItemsInFirstOpenSession ==
    [][ \A r \in Runs, answer \in SheetItemLists :
           (Len(queue) > 0 /\ FetchSheetItems(r, answer))
           => /\ sessions' # << >>
              /\ sessions'[1].boss_key = NoKey
              /\ Len(sessions'[1].items) >= Len(queue)
              /\ \A i \in 2..Len(sessions') : sessions'[i].boss_key # NoKey ]_vars

(***************************************************************************)
(* Properties of the end of a run and of the lock map.                     *)
(***************************************************************************)
\* the task of run r that finalizes the run stops in this step: cancelled
\* by its own clear_all_timers, or at the end of finalize_session.
FinalizerStops(r) ==
    /\ sched'[r].pc = "idle"
    /\ \/ sched[r].pc = "final_submit"
       \/ sched[r].pc # "idle" /\ active /\ ~active'

\* C21: when the task that finalizes a run stops, the run state is cleared:
\* no session, no settlement record, no snapshot, no lock.
C21_FinalizedRunIsCleared ==
    [][ \A r \in Runs : FinalizerStops(r) =>
           /\ sessions' = << >>
           /\ session_items' = << >>
           /\ cached_points' = NoCache
           /\ locked_points' = EmptyDict ]_vars

\* C22: every member present in the lock map has locked > 0.
C22_NoZeroOrNegativeLock ==
    \A n \in DOMAIN locked_points : locked_points[n] > 0

\* C23: while the item is paused no warning callback acts and the item does
\* not end; the resume adds the paused duration to end_time, so that the
\* time left after it is the time that was left when the pause began.
C23_PausedTimeDoesNotCount ==
    [][ /\ (paused /\ auction_is_active) =>
              /\ active_auction' # None
              /\ active_auction'.status = "active"
              /\ active_auction'.going_once = active_auction.going_once
              /\ active_auction'.going_twice = active_auction.going_twice
        /\ (paused /\ ~paused' /\ auction_is_active) =>
              active_auction'.end_time - now = active_auction.end_time - pause.at ]_vars

(***************************************************************************)
(* Properties of the reservations, checked under Spec.                     *)
(***************************************************************************)
\* C24: in every reachable state in which the item has a current winner,
\* the points locked for that member are at least the item's current bid.
C24_WinnerLockCoversCurrentBid ==
    (active_auction # None /\ active_auction.cur_winner # NoName)
    => LockedOf(active_auction.cur_winner) >= active_auction.cur_bid

\* what member n is winning on the item, and what n has won in the history.
WinningNow(n) ==
    IF active_auction # None /\ active_auction.cur_winner # NoName
       /\ Lower(active_auction.cur_winner) = Lower(n)
    THEN active_auction.cur_bid
    ELSE 0
WonOf(n) == SpentFolded(history, n)

\* C25: a member's locked points never exceed the sum of the bid the member
\* is winning now and of the bids the member has won in this run; once
\* outbid, nothing of the member's lock for the item remains.
C25_LockWithinWinningBids ==
    \A n \in DOMAIN locked_points :
        locked_points[n] <= WinningNow(n) + WonOf(n)

\* C27: while the snapshot of the points is the one loaded for the item, no
\* member holds more locked points than the member's total in the snapshot.
C27_LockedWithinTotal ==
    cache_truthy => \A n \in DOMAIN locked_points : LockedOf(n) <= TotalOf(n)

\* C26: for every member, the amounts of the history records the member
\* wins (as the single winner or among the winners of a batch) never add up
\* to more than the member's total points in the snapshot.
C26_NoOverspend ==
    cache_truthy => \A n \in Names : WonOf(n) <= TotalOf(n)

\* the step takes the confirmation of slot s past the stale test while the
\* item has a winner: it releases (and awaits the notice) or applies at once.
ConfirmsOverWinner(s) ==
    /\ tasks[s].pc = "waiting"
    /\ active_auction # None
    /\ active_auction.cur_winner # NoName
    /\ (tasks'[s].pc = "confirming" \/ Applies(s))

\* C28: when the confirmation of a bidder other than the current winner is
\* applied, the previous winner's lock is first reduced by exactly the
\* previous current bid (floored at 0), before the new reservation is added;
\* when the confirming bidder is the current winner, nothing is released.
C28_ReleaseExactlyOnDisplacement ==
    [][ \A s \in Slots :
           ConfirmsOverWinner(s) =>
              IF Lower(active_auction.cur_winner) # Lower(tasks[s].username)
              THEN /\ tasks'[s].pc = "confirming"
                   /\ \A n \in Names :
                         locked_of(locked_points', n) =
                            IF n = active_auction.cur_winner
                            THEN Max(0, LockedOf(n) - active_auction.cur_bid)
                            ELSE LockedOf(n)
              ELSE \A n \in Names : locked_of(locked_points', n) >= LockedOf(n) ]_vars

\* C29: the step that applies a confirmed bid adds exactly 60 s to end_time,
\* adds one to ext_count and clears going_once and going_twice if and only
\* if less than 60 s remain and ext_count is below MAX_EXTENSIONS; otherwise
\* it leaves end_time, ext_count and both flags as they were.
C29_ExtensionRule ==
    [][ \A s \in Slots :
           Applies(s) =>
              IF active_auction.end_time - now < 60
                 /\ active_auction.ext_count < MAX_EXTENSIONS
              THEN /\ active_auction'.end_time = active_auction.end_time + 60
                   /\ active_auction'.ext_count = active_auction.ext_count + 1
                   /\ ~active_auction'.going_once
                   /\ ~active_auction'.going_twice
              ELSE /\ active_auction'.end_time = active_auction.end_time
                   /\ active_auction'.ext_count = active_auction.ext_count
                   /\ active_auction'.going_once = active_auction.going_once
                   /\ active_auction'.going_twice = active_auction.going_twice ]_vars

\* the item took a bid with 60 s or more left, which did not extend it, and
\* then a bid with less than 60 s left, which extended it by 60 s.
C29_Witness_OneBidExtendedOneNot ==
    /\ active_auction # None
    /\ active_auction.ext_count = 1
    /\ Len(active_auction.bids) = 2
    /\ active_auction.end_time - now > 60
    /\ \E t \in EndTimers : active_auction.end_time = t.at + 60

(***************************************************************************)
(* Properties of the end of an item, checked under Spec.                   *)
(***************************************************************************)
\* the step is the one in which end_auction writes the history.
RecordsTheSale == chain.pc = "ending" /\ chain'.pc = "archiving"

\* the records of what was announced as sold when the item became ended.
Announced ==
    [i \in 1..Len(chain.sale.winners) |->
        [item |-> active_auction.id, winner |-> chain.sale.winners[i].username,
         winner_id |-> chain.sale.winners[i].user_id,
         amount |-> chain.sale.winners[i].amount]]

\* C30: an item ends once: once ended it stays ended until it is removed;
\* the history grows only in the recording step of end_auction, by exactly
\* one record if the item had a winner when it became ended and by none
\* otherwise, and the record carries the winner and the bid the item had at
\* that moment, which are the ones announced as sold.
C30_EndsOnceWithOneRecord ==
    [][ /\ (active_auction # None /\ active_auction.status = "ended") =>
              (active_auction' = None \/ active_auction'.status = "ended")
        /\ RecordsTheSale =>
              /\ history' = history \o Announced
              /\ Len(Announced) = IF chain.sale.branch = "none" THEN 0 ELSE 1
        /\ (history' # history /\ history' # << >>) => RecordsTheSale ]_vars

(***************************************************************************)
(* Properties of the pending confirmations, checked under SpecFair.        *)
(***************************************************************************)
\* C31: every stored pending confirmation is eventually removed from
\* pending_confirmations, also when its item has ended or is gone by the
\* time the bidder reacts.
C31_EveryPendingIsResolved ==
    \A s \in Slots : (s \in pending_confirmations) ~> (s \notin pending_confirmations)

(***************************************************************************)
(* Properties of the runs, checked under SpecRun.                          *)
(***************************************************************************)
\* start r got past the test of self.active and has made the run active: it
\* waits for its first item, or runs an item, or waits between two items.
InItemChain(r) ==
    \/ sched[r].pc \in {"start_wait", "item_wait", "session_gap", "item_preview",
                        "item_post"}
    \/ \E t \in run_timers : t.run = r

\* C32: at most one run is in progress: a start request issued while a run
\* is active or while another start still awaits its responses produces no
\* second run, so no two chains of item auctions proceed at the same time.
C32_AtMostOneRun ==
    \A r1, r2 \in Runs : (InItemChain(r1) /\ InItemChain(r2)) => r1 = r2

(***************************************************************************)
(* Properties of the operator's reset, checked under SpecClear.            *)
(***************************************************************************)
\* C33: once a later run is active, the end callback of a timer scheduled
\* by an earlier run (reset by clearstate, or finalized) acts on nothing of
\* it: it neither ends the current item nor advances the item index.
C33_LeftoverEndCallbackIsInert ==
    [][ /\ \A t \in run_timers :
              (active /\ t.run < starts /\ ItemEndBy(t)) => current_item' = current_item
        /\ \A r \in Runs :
              (active /\ r < starts /\ ItemEndNext(r))
                 => current_item_index' = current_item_index ]_vars

(***************************************************************************)
(* Properties of the end of a run, checked under SpecRunFair.              *)
(***************************************************************************)
\* C34: every run that becomes active eventually finalizes: whenever active
\* is True it becomes False later on, given that timers fire and that every
\* external call returns.
C34_ActiveRunFinalizes == active ~> ~active

ManualOutcomes(payload) ==
    IF "manualItems" \in DOMAIN payload THEN payload.manualItems ELSE << >>

\* C36: when the settlement is submitted, every item of the manual queue
\* that has ended is exactly once in the manual outcomes of the payload,
\* with its winner and winning bid if it was sold.
C36_ManualItemsInOutcomes ==
    chain.pc = "finalizing" =>
        \A i \in 1..Len(history) :
            LET out == ManualOutcomes(bidding_submit_payload)
            IN  Cardinality({j \in 1..Len(out) :
                                /\ out[j].item = history[i].item
                                /\ out[j].winner = history[i].winner
                                /\ out[j].winningBid = history[i].amount}) = 1

(***************************************************************************)
(* Conservation at settlement, checked under SpecSettle.                   *)
(***************************************************************************)
RECURSIVE SumOfField(_, _)
SumOfEntries(entries) == SumOfField([i \in 1..Len(entries) |-> entries[i].totalSpent], 0)

SumOfField(amounts, acc) ==
    IF amounts = << >> THEN acc ELSE SumOfField(Tail(amounts), acc + Head(amounts))

SumOfRecords(records) == SumOfField([i \in 1..Len(records) |-> records[i].amount], 0)

\* C37: the totalSpent of the entries of the results add up to the amounts
\* of the settlement records the results were built from.
C37_SpentIsConserved ==
    results # None => SumOfEntries(results.entries) = SumOfRecords(results.records)

(***************************************************************************)
(* Consistency of the bid history of the item, checked under Spec.         *)
(***************************************************************************)
\* the current winner is unset exactly when no bid is on record, and then
\* the current bid is the start price.
UnsetIffNoBids ==
    LET a == active_auction
    IN  /\ (a.cur_winner = NoName) <=> (a.bids = << >>)
        /\ a.bids = << >> => a.cur_bid = a.start_price

\* the current bid and winner are those of the last bid on record.
LastBidIsCurrent ==
    LET a == active_auction
    IN  a.bids # << >> =>
            /\ a.cur_bid = a.bids[Len(a.bids)].amount
            /\ a.cur_winner = a.bids[Len(a.bids)].username

\* the amounts on record are strictly increasing.
BidsStrictlyIncreasing ==
    LET a == active_auction
    IN  \A i \in 1..Len(a.bids) - 1 : a.bids[i].amount < a.bids[i + 1].amount

\* C38: in every state of an item the current winner is unset iff the bid
\* history is empty (and then the current bid is the start price);
\* otherwise current bid and winner are the amount and member of the last
\* entry of the history, and the amounts of the history strictly increase.
C38_BidHistoryConsistent ==
    active_auction # None =>
        /\ UnsetIffNoBids
        /\ LastBidIsCurrent
        /\ BidsStrictlyIncreasing
====
